---------------------------- MODULE Spec2Model ----------------------------
(***************************************************************************)
(* Model of the batch branding pipeline of src/App.tsx (startProcessing   *)
(* and the handlers that share its React state), of the placement advisor *)
(* client (src/unnamed/part_000, getSmartLogoPosition) and of the browser *)
(* resources the pipeline acquires (object URLs, the JSZip archive sink). *)
(*                                                                         *)
(* JavaScript runs every handler to completion between two awaits, and    *)
(* React (createRoot, src/index.tsx 18) commits the state written in      *)
(* between as one batch, so one action of the model is the code from one  *)
(* await (or from the click) up to the next await.  Arrays are sequences: *)
(* the item with index i of the code is element i + 1 of the sequence.    *)
(***************************************************************************)
EXTENDS Integers, Sequences, FiniteSets, TLC

VARIABLES
    \* React state of App (src/App.tsx 41-48)
    images, brandLogo, isProcessing, processStates, zipUrl, currentIdx, batchSize,
    \* environment: process.env.API_KEY (156), and whether the JSZip script that
    \* src/index.tsx appends to the page has loaded and defined the global
    hasEnvKey, jsZipLoaded,
    \* the activation of startProcessing: the await it is suspended at, and
    \* its closure and locals (images, brandLogo, batchSize, i, sourceUrl,
    \* placement, zip)
    pc, run,
    \* the browser's blob URL store (the object URLs not yet revoked) and the
    \* entries of the blob behind the archive handle of the current run
    objectUrls, zipBlob,
    \* history: runs started, order in which items became terminal, the last
    \* pipeline step that finished, whether an exception left startProcessing,
    \* the payloads handed to zip.file since the run started
    runs, terminalOrder, lastStep, escaped, appended,
    \* one call of a pure function of the program, taken alone: its inputs and,
    \* once it has returned, its result
    probe,
    \* more React state of App: the Logo Padding slider (47), the image of the
    \* generator tab (53-54), and the activations of addToQueue (135-144) that
    \* are suspended at their awaits
    logoPadding, generatedImage, isGenerating, adding

appVars == << images, brandLogo, isProcessing, processStates, zipUrl, currentIdx,
              batchSize, hasEnvKey, jsZipLoaded, pc, run, objectUrls, zipBlob,
              runs, terminalOrder, lastStep, escaped, appended >>

studioVars == << logoPadding, generatedImage, isGenerating, adding >>

vars == << appVars, probe, studioVars >>

-----------------------------------------------------------------------------
(* Bounds of the model *)

MaxFiles == 3        \* files in one gallery upload
MaxRuns == 2         \* runs started in one session
MaxBatch == 2        \* positions of the batch-size slider that are explored
MaxGallery == 201    \* gallery sizes for which the progress figure is computed
MaxAdding == 1       \* activations of addToQueue suspended at the same time

-----------------------------------------------------------------------------
(* Values *)

Null == "null"                 \* a null string state (brandLogo)
Undefined == "undefined"       \* an unset string field (error)
None == << >>                  \* an unset object, URL or optional value
Some(x) == << x >>

\* A file name is the sequence of its dot-separated segments:
\* <<"photo", "jpg">> is photo.jpg, so that name.split('.') is the name itself.
FileNames == { <<"photo", "jpg">>, <<"photo", "png">>, <<"shoe", "jpg">> }

Logos == { "logo" }

Terminal == { "completed", "error" }
Active == { "analyzing", "processing" }

\* Sequences over S of length 1..n
SeqUpTo(S, n) == UNION { [1..k -> S] : k \in 1..n }

-----------------------------------------------------------------------------
(* Placement advisor client: getSmartLogoPosition *)

Fallback == [position |-> "bottom-right", padding |-> 50, boundingBox |-> None]

\* What the service call produces: a thrown network error, a text that
\* JSON.parse rejects, or a parsed object; has names the fields it holds.
NetworkError == [kind |-> "throw"]
Unparseable == [kind |-> "text"]
Parsed(has, pos, pad, box) ==
    [kind |-> "json", has |-> has, position |-> pos, padding |-> pad,
     boundingBox |-> box]

GoodResponse ==
    Parsed({"position", "padding", "boundingBox"}, "top-right", 40,
           << 100, 200, 800, 900 >>)

\* String.prototype.toLowerCase on the position strings of the model
ToLowerCase(str) ==
    CASE str = "Top-Right"   -> "top-right"
      [] str = "BOTTOM-LEFT" -> "bottom-left"
      [] OTHER               -> str

getSmartLogoPosition_NoDefaults(response) ==
    IF response.kind = "json"
    THEN [position |-> response.position, padding |-> response.padding,
          boundingBox |-> None]
    ELSE [position |-> "", padding |-> 0, boundingBox |-> None]

\* A thrown call (71-74) and a text JSON.parse rejects (68-70) give the
\* fallback; a parsed object gives, field by field, its own value or the
\* default: data.position?.toLowerCase() || 'bottom-right', data.padding || 50,
\* data.boundingBox ? {...} : undefined (57-67)
getSmartLogoPosition(response) ==
    CASE response.kind = "throw" -> Fallback
      [] response.kind = "text"  -> Fallback
      [] OTHER ->
           [position    |-> IF /\ "position" \in response.has
                               /\ ToLowerCase(response.position) # ""
                            THEN ToLowerCase(response.position)
                            ELSE "bottom-right",
            padding     |-> IF "padding" \in response.has /\ response.padding # 0
                            THEN response.padding ELSE 50,
            boundingBox |-> IF "boundingBox" \in response.has
                            THEN Some([ymin |-> response.boundingBox[1],
                                       xmin |-> response.boundingBox[2],
                                       ymax |-> response.boundingBox[3],
                                       xmax |-> response.boundingBox[4]])
                            ELSE None]

\* The responses the runs of the pipeline are explored with
RunResponses == { NetworkError, GoodResponse }

-----------------------------------------------------------------------------
(* Archive sink and object URLs *)

\* `${file.name.split('.')[0]}_1x1_HD.jpg`
ArchiveName(name) == << Head(name), "_1x1_HD", "jpg" >>

\* new JSZip(): no files.  log is the history of the payloads handed to file().
NewZip == [files |-> << >>, log |-> {}]

ZipFile_Skip(zip, name, data) == zip

\* zip.file(name, data): the entry of that name is set, replacing an earlier one
ZipFile(zip, name, data) ==
    [files |-> [n \in (DOMAIN zip.files) \cup {name} |->
                    IF n = name THEN data ELSE zip.files[n]],
     log   |-> zip.log \cup {data}]

\* URL.createObjectURL returns a URL that no unrevoked URL equals: the first
\* unused one of its kind, "source" for a File and "zip" for the archive blob
CreateObjectURL(kind, urls) ==
    << kind, CHOOSE n \in 0 .. Cardinality(urls) :
                 /\ << kind, n >> \notin urls
                 /\ \A m \in 0 .. n - 1 : << kind, m >> \in urls >>

\* URL.revokeObjectURL
RevokeObjectURL(url, urls) == urls \ { url }

\* The full-resolution result of item i (what zip.file is given)
FullRes(i) == i

-----------------------------------------------------------------------------
(* Item state *)

\* images.map((f, i) => ({ id, name, status: 'pending', progress: 0 }))
PendingStates(imgs) ==
    [k \in 1..Len(imgs) |->
        [id |-> << imgs[k], k - 1 >>, name |-> imgs[k], status |-> "pending",
         progress |-> 0, resultUrl |-> None, error |-> Undefined,
         placement |-> None]]

\* { ...newState[i], ...update }
Merge(state, update) ==
    [f \in DOMAIN state |-> IF f \in DOMAIN update THEN update[f] ELSE state[f]]

\* updateStatus of the item with index i
updateStatus(prev, i, update) ==
    [prev EXCEPT ![i + 1] = Merge(@, update)]

AnalyzingUpdate_Processing == [status |-> "processing", progress |-> 15]

AnalyzingUpdate == [status |-> "analyzing", progress |-> 15]
PlacementUpdate(p) == [placement |-> Some(p)]
ProcessingUpdate(p) == [status |-> "processing", progress |-> p]
CompletedUpdate(i) ==
    [status |-> "completed", progress |-> 100, resultUrl |-> Some(i)]

CatchUpdate_LogOnly == [progress |-> 0]

\* the update of the catch block
CatchUpdate == [status |-> "error", error |-> "Skipped", progress |-> 0]

CatchRethrows_Yes == TRUE

\* the catch block logs and updates the item; it does not rethrow
CatchRethrows == FALSE

ZipUrlAtStart_Kept(prev) == prev

\* setZipUrl(null) at the start of a run
ZipUrlAtStart(prev) == None

\* for (let i = 0; i < images.length; i++)
FirstIndex_One == 0 + 1

FirstIndex == 0
NextIndex(i) == i + 1

\* i % batchSize === 0
YieldsAfter(i, size) == i % size = 0

StatusOf(k) == processStates[k + 1].status
Items == 0 .. Len(processStates) - 1

\* startProcessing is not active: it has no closure and no locals
\* (used: the options the last call of the compositor and the last yield
\* test of the activation were given; atStart: the options of the UI when the
\* activation began)
NoRun == [images |-> << >>, brandLogo |-> Null, logoPadding |-> 50,
          batchSize |-> 1, i |-> -1, sourceUrl |-> None, placement |-> None,
          zip |-> NewZip, atStart |-> None, used |-> None]

Options(logo, padding, size) ==
    [brandLogo |-> logo, logoPadding |-> padding, batchSize |-> size]

OptionsUsed_Live(r) == Options(brandLogo, logoPadding, batchSize)

\* The options the loop body works with: brandLogo and logoPadding in the call
\* of processProductImage (202-205) and batchSize in the yield test (223) are
\* the constants of the render in which startProcessing was created
OptionsUsed(r) == Options(r.brandLogo, r.logoPadding, r.batchSize)

\* The last pipeline step that finished: its item, the step, and its result
\* to the orchestrator: "ok", "failed" (it threw, or it will never settle) or
\* "fallback" (the advisor failed inside and returned the fallback).
Step(item, step, result) == [item |-> item, step |-> step, result |-> result]
NoStep == Step(-1, "none", "ok")

\* No function is looked at alone
NoProbe == [fn |-> "none"]

\* terminalOrder after the item with index i was updated to ps
Observe(order, ps, i) ==
    IF ps[i + 1].status \in Terminal /\ processStates[i + 1].status \notin Terminal
    THEN Append(order, i) ELSE order

-----------------------------------------------------------------------------
(* Initial state: the useState defaults of App (src/App.tsx 41-48), with   *)
(* the JSZip script of src/index.tsx (9-11) appended and not yet loaded   *)

AppInit ==
    /\ images = << >>
    /\ brandLogo = Null
    /\ isProcessing = FALSE
    /\ processStates = << >>
    /\ zipUrl = None
    /\ currentIdx = -1
    /\ batchSize = 10
    /\ hasEnvKey \in BOOLEAN
    /\ jsZipLoaded = FALSE
    /\ pc = "idle"
    /\ run = NoRun
    /\ objectUrls = {}
    /\ zipBlob = None
    /\ runs = 0
    /\ terminalOrder = << >>
    /\ lastStep = NoStep
    /\ escaped = FALSE
    /\ appended = {}
    /\ logoPadding = 50
    /\ generatedImage = Null
    /\ isGenerating = FALSE
    /\ adding = 0

Init == AppInit /\ probe = NoProbe

-----------------------------------------------------------------------------
(* startProcessing *)

\* The for loop from its test with index j, for the activation r, the item
\* states ps and the URL store urls, up to the next await: either the
\* FileReader of item j (187-195) or zip.generateAsync (234).
LoopFrom(r, j, ps, urls) ==
    IF j < Len(r.images)
    THEN LET sourceUrl == CreateObjectURL("source", urls)
         IN /\ currentIdx' = j
            /\ objectUrls' = urls \cup { sourceUrl }
            /\ processStates' = updateStatus(ps, j, AnalyzingUpdate)
            /\ run' = [r EXCEPT !.i = j, !.sourceUrl = sourceUrl,
                                 !.placement = None]
            /\ pc' = "read"
    ELSE /\ currentIdx' = currentIdx
         /\ objectUrls' = urls
         /\ processStates' = ps
         /\ run' = [r EXCEPT !.i = j, !.sourceUrl = None, !.placement = None]
         /\ pc' = "finalize"

Rejects_NoLogoCheck(imgs, logo, key) == Len(imgs) = 0 \/ ~key

\* The guards of startProcessing (155-159): it returns at once on an empty
\* gallery, without a brand logo, or without process.env.API_KEY
Rejects(imgs, logo, key) == Len(imgs) = 0 \/ logo = Null \/ ~key

\* The click on Start Branding (button enabled: 457) up to the first await
Start ==
    /\ ~isProcessing
    /\ pc = "idle"
    /\ ~Rejects(images, brandLogo, hasEnvKey)
    /\ runs < MaxRuns
    /\ runs' = runs + 1
    /\ isProcessing' = TRUE
    /\ zipUrl' = ZipUrlAtStart(zipUrl)
    /\ zipBlob' = IF zipUrl' = None THEN None ELSE zipBlob
    /\ terminalOrder' = << >>
    /\ lastStep' = NoStep
    /\ appended' = {}
    /\ IF jsZipLoaded
       THEN /\ LoopFrom([images |-> images, brandLogo |-> brandLogo,
                         logoPadding |-> logoPadding, batchSize |-> batchSize,
                         i |-> -1, sourceUrl |-> None, placement |-> None,
                         zip |-> NewZip,
                         atStart |-> Some(Options(brandLogo, logoPadding, batchSize)),
                         used |-> None],
                        FirstIndex, PendingStates(images), objectUrls)
            /\ escaped' = FALSE
       ELSE \* new JSZip() throws a ReferenceError out of startProcessing
            /\ processStates' = PendingStates(images)
            /\ pc' = "aborted"
            /\ escaped' = TRUE
            /\ run' = NoRun
            /\ UNCHANGED << currentIdx, objectUrls >>
    /\ UNCHANGED << images, brandLogo, batchSize, hasEnvKey, jsZipLoaded, probe,
                    studioVars >>

\* startProcessing returns at its guards (155-159) and changes nothing
StartRejected ==
    /\ ~isProcessing
    /\ Rejects(images, brandLogo, hasEnvKey)
    /\ UNCHANGED vars

\* reader.onload resolves the promise (193); the advisor call is awaited
ReadDone ==
    /\ pc = "read"
    /\ pc' = "advisor"
    /\ lastStep' = Step(run.i, "read", "ok")
    /\ UNCHANGED << images, brandLogo, isProcessing, processStates, zipUrl,
                    currentIdx, batchSize, hasEnvKey, jsZipLoaded, run,
                    objectUrls, zipBlob, runs, terminalOrder, escaped, appended, probe,
                    studioVars >>

\* The read fails: the reader has no onerror and the promise has no reject
\* (191-195), so the promise never settles and the activation never resumes
ReadError ==
    /\ pc = "read"
    /\ pc' = "hung"
    /\ lastStep' = Step(run.i, "read", "failed")
    /\ UNCHANGED << images, brandLogo, isProcessing, processStates, zipUrl,
                    currentIdx, batchSize, hasEnvKey, jsZipLoaded, run,
                    objectUrls, zipBlob, runs, terminalOrder, escaped, appended, probe,
                    studioVars >>

\* getSmartLogoPosition resolves (197-200); processProductImage is awaited
AdvisorDone ==
    /\ pc = "advisor"
    /\ \E response \in RunResponses :
         LET placement == getSmartLogoPosition(response)
             ps1 == updateStatus(processStates, run.i, PlacementUpdate(placement))
         IN /\ processStates' = updateStatus(ps1, run.i, ProcessingUpdate(60))
            /\ run' = [run EXCEPT !.placement = Some(placement)]
            /\ lastStep' = Step(run.i, "advisor",
                                IF response.kind = "json" THEN "ok" ELSE "fallback")
    /\ pc' = "compose"
    /\ UNCHANGED << images, brandLogo, isProcessing, zipUrl, currentIdx,
                    batchSize, hasEnvKey, jsZipLoaded, objectUrls, zipBlob,
                    runs, terminalOrder, escaped, appended, probe,
                    studioVars >>

\* processProductImage settles (201-231): on success the result is appended
\* to the archive, the item completed and its URL revoked, then the yield or
\* the next item; a throw of the compositor or of zip.file goes to the catch
ComposeDone ==
    /\ pc = "compose"
    /\ \E composeOk \in BOOLEAN, appendOk \in BOOLEAN :
         LET i == run.i
             file == run.images[i + 1]
             ps90 == updateStatus(processStates, i, ProcessingUpdate(90))
             options == OptionsUsed(run)
             called == [run EXCEPT !.used = Some(options)]
         IN IF composeOk /\ appendOk
            THEN LET zp == ZipFile(run.zip, ArchiveName(file), FullRes(i))
                     ps == updateStatus(ps90, i, CompletedUpdate(i))
                     urls == RevokeObjectURL(run.sourceUrl, objectUrls)
                 IN /\ lastStep' = Step(i, "append", "ok")
                    /\ appended' = zp.log
                    /\ terminalOrder' = Observe(terminalOrder, ps, i)
                    /\ escaped' = escaped
                    /\ IF YieldsAfter(i, options.batchSize)
                       THEN /\ pc' = "yield"
                            /\ processStates' = ps
                            /\ objectUrls' = urls
                            /\ run' = [called EXCEPT !.zip = zp]
                            /\ currentIdx' = currentIdx
                       ELSE LoopFrom([called EXCEPT !.zip = zp], NextIndex(i), ps, urls)
            ELSE LET ps == updateStatus(IF composeOk THEN ps90 ELSE processStates,
                                        i, CatchUpdate)
                 IN /\ lastStep' = Step(i, IF composeOk THEN "append" ELSE "compose",
                                        "failed")
                    /\ appended' = appended
                    /\ terminalOrder' = Observe(terminalOrder, ps, i)
                    /\ IF CatchRethrows
                       THEN /\ pc' = "aborted"
                            /\ escaped' = TRUE
                            /\ processStates' = ps
                            /\ run' = called
                            /\ UNCHANGED << objectUrls, currentIdx >>
                       ELSE /\ escaped' = escaped
                            /\ LoopFrom(called, NextIndex(i), ps, objectUrls)
    /\ UNCHANGED << images, brandLogo, isProcessing, zipUrl, batchSize,
                    hasEnvKey, jsZipLoaded, zipBlob, runs, probe,
                    studioVars >>

\* The timer of the yield fires (224) and the loop goes on
YieldDone ==
    /\ pc = "yield"
    /\ LoopFrom(run, NextIndex(run.i), processStates, objectUrls)
    /\ lastStep' = Step(run.i, "yield", "ok")
    /\ UNCHANGED << images, brandLogo, isProcessing, zipUrl, batchSize,
                    hasEnvKey, jsZipLoaded, zipBlob, runs, terminalOrder,
                    escaped, appended, probe,
                    studioVars >>

FinalizeCatchRethrows_Yes == TRUE

\* the catch block of the finalization (236-238) logs; it does not rethrow
FinalizeCatchRethrows == FALSE

\* zip.generateAsync settles (233-242)
Finalize ==
    /\ pc = "finalize"
    /\ \E ok \in BOOLEAN :
         /\ IF ok
            THEN LET url == CreateObjectURL("zip", objectUrls)
                 IN /\ objectUrls' = objectUrls \cup { url }
                    /\ zipUrl' = url
                    /\ zipBlob' = Some(run.zip.files)
                    /\ lastStep' = Step(-1, "finalize", "ok")
            ELSE /\ lastStep' = Step(-1, "finalize", "failed")
                 /\ UNCHANGED << objectUrls, zipUrl, zipBlob >>
         /\ IF ~ok /\ FinalizeCatchRethrows
            THEN /\ pc' = "aborted"
                 /\ escaped' = TRUE
                 /\ UNCHANGED << isProcessing, currentIdx, run >>
            ELSE /\ isProcessing' = FALSE
                 /\ currentIdx' = -1
                 /\ pc' = "idle"
                 /\ run' = NoRun
                 /\ escaped' = escaped
    /\ UNCHANGED << images, brandLogo, processStates, batchSize, hasEnvKey,
                    jsZipLoaded, runs, terminalOrder, appended, probe,
                    studioVars >>

-----------------------------------------------------------------------------
(* The other handlers of App that write the state of the pipeline *)

\* handleBulkUpload (90-96).  The file input is opened only by the Upload
\* Gallery button, which is rendered while the gallery is empty (489-503);
\* one selection of the file dialog holds files of pairwise different names.
HandleBulkUpload ==
    /\ Len(images) = 0
    /\ \E newFiles \in SeqUpTo(FileNames, MaxFiles) :
         /\ \A a, b \in DOMAIN newFiles : newFiles[a] = newFiles[b] => a = b
         /\ images' = images \o newFiles
    /\ zipUrl' = None
    /\ zipBlob' = None
    /\ UNCHANGED << brandLogo, isProcessing, processStates, currentIdx,
                    batchSize, hasEnvKey, jsZipLoaded, pc, run, objectUrls,
                    runs, terminalOrder, lastStep, escaped, appended, probe,
                    studioVars >>

\* clearAll (146-152), behind Reset Gallery (448-452)
ClearAll ==
    /\ Len(images) > 0 /\ ~isProcessing
    /\ objectUrls' = IF zipUrl # None THEN RevokeObjectURL(zipUrl, objectUrls)
                                      ELSE objectUrls
    /\ images' = << >>
    /\ processStates' = << >>
    /\ zipUrl' = None
    /\ zipBlob' = None
    /\ currentIdx' = -1
    /\ terminalOrder' = << >>
    /\ lastStep' = NoStep
    /\ appended' = {}
    /\ UNCHANGED << brandLogo, isProcessing, batchSize, hasEnvKey, jsZipLoaded,
                    pc, run, runs, escaped, probe,
                    studioVars >>

\* handleAssetUpload (79-88): the logo input is rendered while there is no logo
HandleAssetUpload ==
    /\ brandLogo = Null
    /\ \E logo \in Logos : brandLogo' = logo
    /\ UNCHANGED << images, isProcessing, processStates, zipUrl, currentIdx,
                    batchSize, hasEnvKey, jsZipLoaded, pc, run, objectUrls,
                    zipBlob, runs, terminalOrder, lastStep, escaped, appended, probe,
                    studioVars >>

\* The trash button of the logo (292)
RemoveBrandLogo ==
    /\ brandLogo # Null
    /\ brandLogo' = Null
    /\ UNCHANGED << images, isProcessing, processStates, zipUrl, currentIdx,
                    batchSize, hasEnvKey, jsZipLoaded, pc, run, objectUrls,
                    zipBlob, runs, terminalOrder, lastStep, escaped, appended, probe,
                    studioVars >>

\* The Batch Burst Size slider (326-330)
SetBatchSize ==
    /\ \E size \in 1..MaxBatch : size # batchSize /\ batchSize' = size
    /\ UNCHANGED << images, brandLogo, isProcessing, processStates, zipUrl,
                    currentIdx, hasEnvKey, jsZipLoaded, pc, run, objectUrls,
                    zipBlob, runs, terminalOrder, lastStep, escaped, appended, probe,
                    studioVars >>

\* The JSZip script appended by src/index.tsx (9-11) loads; it may never do
JsZipScriptLoads ==
    /\ ~jsZipLoaded
    /\ jsZipLoaded' = TRUE
    /\ UNCHANGED << images, brandLogo, isProcessing, processStates, zipUrl,
                    currentIdx, batchSize, hasEnvKey, pc, run, objectUrls,
                    zipBlob, runs, terminalOrder, lastStep, escaped, appended, probe,
                    studioVars >>

Next ==
    \/ JsZipScriptLoads
    \/ Start
    \/ StartRejected
    \/ ReadDone
    \/ ReadError
    \/ AdvisorDone
    \/ ComposeDone
    \/ YieldDone
    \/ Finalize
    \/ HandleBulkUpload
    \/ ClearAll
    \/ HandleAssetUpload
    \/ RemoveBrandLogo
    \/ SetBatchSize

Spec == Init /\ [][Next]_vars

\* The host keeps scheduling callbacks: the FileReader fires load or error,
\* the promises of the advisor, the compositor and zip.generateAsync settle,
\* and the timer of the yield fires.  The user and the network owe nothing.
FairSpec ==
    /\ Spec
    /\ WF_vars(ReadDone \/ ReadError)
    /\ WF_vars(AdvisorDone)
    /\ WF_vars(ComposeDone)
    /\ WF_vars(YieldDone)
    /\ WF_vars(Finalize)

-----------------------------------------------------------------------------
(* The Logo Padding slider and the generator tab (AI Lab), which stay      *)
(* available while a run is in progress.  The tab shown (activeTab), the   *)
(* prompt and the selected key only decide which buttons are on screen;    *)
(* the user can switch the tab, type a prompt and select a key at any time. *)

\* The positions of the Logo Padding slider (315-319: 0 to 200) explored
PaddingStops == { 0, 50 }

SetLogoPadding ==
    /\ \E padding \in PaddingStops : padding # logoPadding /\ logoPadding' = padding
    /\ UNCHANGED << appVars, probe, generatedImage, isGenerating, adding >>

\* generateImage (98-133) up to its await: the button is disabled while
\* isGenerating (390)
GenerateImage ==
    /\ ~isGenerating
    /\ isGenerating' = TRUE
    /\ generatedImage' = Null
    /\ UNCHANGED << appVars, probe, logoPadding, adding >>

\* generateContent settles (105-133): an image part was returned, or none
\* was, or the call threw
GenerateDone ==
    /\ isGenerating
    /\ \E image \in { Null, "generated" } : generatedImage' = image
    /\ isGenerating' = FALSE
    /\ UNCHANGED << appVars, probe, logoPadding, adding >>

\* The Discard button (603-608)
DiscardGenerated ==
    /\ generatedImage # Null
    /\ generatedImage' = Null
    /\ UNCHANGED << appVars, probe, logoPadding, isGenerating, adding >>

\* `AI_Gen_${Date.now()}.png`: the clock has moved on since the generated
\* files the gallery already holds were named
GenStems == << "AI_Gen_1", "AI_Gen_2", "AI_Gen_3", "AI_Gen_4", "AI_Gen_5" >>

GenName(imgs) ==
    << GenStems[1 + Cardinality({ k \in DOMAIN imgs :
                                    \E n \in DOMAIN GenStems : Head(imgs[k]) = GenStems[n] })],
       "png" >>

\* addToQueue (135-144) up to its first await: the Add to Queue button is
\* rendered over the generated image (596-609)
AddToQueue ==
    /\ generatedImage # Null
    /\ adding < MaxAdding
    /\ adding' = adding + 1
    /\ UNCHANGED << appVars, probe, logoPadding, generatedImage, isGenerating >>

\* fetch and blob have settled (137-143): the file is appended to the gallery
\* and the generated image dropped; nothing else of the state is written.
\* A rejected fetch ends the activation with nothing written.
AddToQueueDone ==
    /\ adding > 0
    /\ adding' = adding - 1
    /\ \E fetched \in BOOLEAN :
         IF fetched /\ Len(images) < MaxFiles
         THEN /\ images' = Append(images, GenName(images))
              /\ generatedImage' = Null
         ELSE UNCHANGED << images, generatedImage >>
    /\ UNCHANGED << brandLogo, isProcessing, processStates, zipUrl, currentIdx,
                    batchSize, hasEnvKey, jsZipLoaded, pc, run, objectUrls,
                    zipBlob, runs, terminalOrder, lastStep, escaped, appended,
                    probe, logoPadding, isGenerating >>

\* The pipeline together with the Logo Padding slider: every action that
\* reads or writes an option of a run
NextOptions ==
    \/ Next
    \/ SetLogoPadding

SpecOptions == Init /\ [][NextOptions]_vars

\* The pipeline together with the generator tab, in sessions in which the
\* user leaves the options alone once the logo is chosen
NextQueue ==
    \/ JsZipScriptLoads
    \/ Start
    \/ StartRejected
    \/ ReadDone
    \/ ReadError
    \/ AdvisorDone
    \/ ComposeDone
    \/ YieldDone
    \/ Finalize
    \/ HandleBulkUpload
    \/ ClearAll
    \/ HandleAssetUpload
    \/ GenerateImage
    \/ GenerateDone
    \/ DiscardGenerated
    \/ AddToQueue
    \/ AddToQueueDone

SpecQueue == Init /\ [][NextQueue]_vars

-----------------------------------------------------------------------------
(* batchProgress (src/App.tsx 245), taken alone *)

\* Math.round(n / d * 100) for n >= 0 and d > 0.  The quotient and the product
\* are IEEE doubles: away from a tie the result is the nearest integer; at an
\* exact tie x.5 the double may lie just below it (23 / 40 * 100 is
\* 57.49999999999999), so both neighbours are results the build can produce.
RoundPercent(n, d) ==
    LET up == (200 * n + d) \div (2 * d)
        tie == (200 * n + d) % (2 * d) = 0
    IN IF tie THEN { up - 1, up } ELSE { up }

\* images.length > 0
\*   ? Math.round(((currentIdx === -1 ? (zipUrl ? images.length : 0)
\*                                    : currentIdx) / images.length) * 100)
\*   : 0
batchProgress(len, idx, hasZip) ==
    IF len > 0
    THEN RoundPercent(IF idx = -1 THEN (IF hasZip THEN len ELSE 0) ELSE idx, len)
    ELSE { 0 }

\* The states a render can see: no run (currentIdx -1) with or without the
\* archive handle, or a run at item idx of the gallery, whose handle is null
ProgressInputs ==
    { [fn |-> "batchProgress", len |-> len, idx |-> idx, hasZip |-> z, out |-> None] :
        len \in 0 .. MaxGallery, idx \in -1 .. MaxGallery - 1, z \in BOOLEAN }

InitProgress ==
    /\ AppInit
    /\ probe \in { q \in ProgressInputs :
                     /\ q.idx < q.len
                     /\ q.hasZip => (q.idx = -1 /\ q.len > 0) }

RenderProgress ==
    /\ probe.fn = "batchProgress" /\ probe.out = None
    /\ \E percent \in batchProgress(probe.len, probe.idx, probe.hasZip) :
         probe' = [probe EXCEPT !.out = Some(percent)]
    /\ UNCHANGED << appVars, studioVars >>

NextProgress == RenderProgress

SpecProgress == InitProgress /\ [][NextProgress]_vars

-----------------------------------------------------------------------------
(* getSmartLogoPosition (src/unnamed/part_000), taken alone *)

RequiredFields == { "position", "padding", "boundingBox" }

\* What the service can answer: nothing (the call throws), a text that is no
\* JSON, or an object with any of the three fields, of any of these values
AdvisorResponses ==
    { NetworkError, Unparseable } \cup
    { Parsed(has, pos, pad, box) :
        has \in SUBSET RequiredFields,
        pos \in { "", "top-left", "Top-Right", "BOTTOM-LEFT", "bottom-right", "center" },
        pad \in { 0, 40, 50, 120 },
        box \in { << 100, 200, 800, 900 >>, << 0, 0, 1000, 1000 >> } }

InitAdvisor ==
    /\ AppInit
    /\ probe \in { [fn |-> "getSmartLogoPosition", response |-> r, out |-> None] :
                     r \in AdvisorResponses }

AdvisorReturns ==
    /\ probe.fn = "getSmartLogoPosition" /\ probe.out = None
    /\ probe' = [probe EXCEPT !.out = Some(getSmartLogoPosition(probe.response))]
    /\ UNCHANGED << appVars, studioVars >>

NextAdvisor == AdvisorReturns

SpecAdvisor == InitAdvisor /\ [][NextAdvisor]_vars

-----------------------------------------------------------------------------
(* processProductImage (src/services/imageProcessor.ts 136-245): the size  *)
(* of the output and the corner pass, taken alone.  Lengths of the result *)
(* are in thousandths of a pixel, so that outWidth / 1000 stays exact.    *)

\* forceSquare: both sides are Math.max(width, height) (151-158)
OutSize(img, forceSquare) ==
    LET size == IF img.width > img.height THEN img.width ELSE img.height
    IN IF forceSquare THEN [width |-> size, height |-> size]
                      ELSE [width |-> img.width, height |-> img.height]

\* STEP 2 (194-222): the corner logo is a quarter of the output wide, and its
\* padding is options.logoPadding * (outWidth / 1000)
CornerPass(out, logo, placement, options) ==
    LET cWidth == 250 * out.width
        cHeight == (logo.height * cWidth) \div logo.width
        padding == options.logoPadding * out.width
        right == 1000 * out.width - cWidth - padding
        bottom == 1000 * out.height - cHeight - padding
    IN CASE placement.position = "top-right" ->
              [cX |-> right, cY |-> padding, cWidth |-> cWidth, cHeight |-> cHeight]
         [] placement.position = "bottom-left" ->
              [cX |-> padding, cY |-> bottom, cWidth |-> cWidth, cHeight |-> cHeight]
         [] placement.position = "bottom-right" ->
              [cX |-> right, cY |-> bottom, cWidth |-> cWidth, cHeight |-> cHeight]
         [] placement.position = "center" ->
              [cX |-> (1000 * out.width - cWidth) \div 2,
               cY |-> (1000 * out.height - cHeight) \div 2,
               cWidth |-> cWidth, cHeight |-> cHeight]
         [] OTHER ->
              [cX |-> padding, cY |-> padding, cWidth |-> cWidth, cHeight |-> cHeight]

\* The calls of startProcessing (201-207): a decoded source image, the logo, a
\* placement the advisor can return, and the Corner Padding slider (315-319,
\* 0 to 200, 50 at first); forceSquare is true
CompositorInputs ==
    { [fn |-> "processProductImage", img |-> img, logo |-> logo,
       placement |-> [position |-> pos, padding |-> pad, boundingBox |-> None],
       options |-> [logoPadding |-> lp, forceSquare |-> TRUE], out |-> None] :
        img \in { [width |-> 800, height |-> 600], [width |-> 600, height |-> 800],
                  [width |-> 1000, height |-> 1000] },
        logo \in { [width |-> 400, height |-> 400], [width |-> 400, height |-> 200] },
        pos \in { "top-left", "top-right", "bottom-left", "bottom-right", "center" },
        pad \in { 40, 50, 120 },
        lp \in { 0, 50, 200 } }

InitCompositor ==
    /\ AppInit
    /\ probe \in CompositorInputs

CompositorReturns ==
    /\ probe.fn = "processProductImage" /\ probe.out = None
    /\ LET size == OutSize(probe.img, probe.options.forceSquare)
       IN probe' = [probe EXCEPT !.out =
                       Some([size |-> size,
                             corner |-> CornerPass(size, probe.logo, probe.placement,
                                                   probe.options)])]
    /\ UNCHANGED << appVars, studioVars >>

NextCompositor == CompositorReturns

SpecCompositor == InitCompositor /\ [][NextCompositor]_vars

-----------------------------------------------------------------------------
(* Properties *)

ItemSet(status) == { k \in Items : StatusOf(k) \in status }
NameOf(k) == processStates[k + 1].name
PlacementOf(k) == processStates[k + 1].placement

\* A run has ended with its archive handle
Finalized == pc = "idle" /\ zipUrl # None /\ zipBlob # None
ArchiveFiles == zipBlob[1]

\* C1: items are handled in input order: an item has left pending only if
\* every item before it is completed or error, and the items became terminal
\* in the order of their indices 0, 1, 2, ...
C1_InputOrder ==
    /\ \A k \in Items :
         StatusOf(k) # "pending" => \A j \in 0 .. k - 1 : StatusOf(j) \in Terminal
    /\ terminalOrder = [n \in 1 .. Len(terminalOrder) |-> n - 1]
    /\ ItemSet(Terminal) = 0 .. Len(terminalOrder) - 1

C1_Witness ==
    /\ Len(processStates) = 3
    /\ terminalOrder = << 0, 1, 2 >>
    /\ StatusOf(0) = "error" /\ StatusOf(1) = "completed" /\ StatusOf(2) = "error"


\* C2: after a run has ended with its archive, for every item k on which the
\* advisor failed (it got the fallback placement) or which ended in error, every
\* later item was taken to a terminal status, and every later completed item
\* has its own result in the archive under its derived name.
C2_LaterItemsArchived ==
    Finalized =>
        \A k, j \in Items :
            ( /\ k < j
              /\ PlacementOf(k) = Some(Fallback) \/ StatusOf(k) = "error" )
            => /\ StatusOf(j) \in Terminal
               /\ StatusOf(j) = "completed" =>
                     /\ ArchiveName(NameOf(j)) \in DOMAIN ArchiveFiles
                     /\ ArchiveFiles[ArchiveName(NameOf(j))] = FullRes(j)

\* The file names of the items are pairwise distinct
DistinctNames == \A a, b \in Items : NameOf(a) = NameOf(b) => a = b

\* C3: for a gallery of pairwise distinct file names, the entries of the
\* finalized archive correspond one-to-one to the completed items: as many
\* entries as completed items, each completed item's result under its derived
\* name, and no entry of an item that is not completed.
C3_ArchiveMatchesCompleted ==
    (Finalized /\ DistinctNames) =>
        /\ Cardinality(DOMAIN ArchiveFiles) = Cardinality(ItemSet({"completed"}))
        /\ \A k \in ItemSet({"completed"}) :
              /\ ArchiveName(NameOf(k)) \in DOMAIN ArchiveFiles
              /\ ArchiveFiles[ArchiveName(NameOf(k))] = FullRes(k)
        /\ \A n \in DOMAIN ArchiveFiles : ArchiveFiles[n] \in ItemSet({"completed"})

\* C4 as claimed: while a run is in progress (isProcessing is true and no
\* exception has ended startProcessing) exactly one item is analyzing or
\* processing.
C4_ExactlyOneActive ==
    (isProcessing /\ pc # "aborted") => Cardinality(ItemSet(Active)) = 1

\* C4 as amended: at most one item is analyzing or processing; while the run
\* waits for the read, the advisor or the compositor of an item it is exactly
\* the item at currentIdx, and in every other state no item is.
C4_AtMostOneActive ==
    /\ Cardinality(ItemSet(Active)) <= 1
    /\ pc \in {"read", "advisor", "compose", "hung"} =>
          isProcessing /\ ItemSet(Active) = { currentIdx }
    /\ pc \in {"idle", "yield", "finalize", "aborted"} => ItemSet(Active) = {}

C4_Witness ==
    /\ isProcessing /\ pc = "yield"
    /\ Len(processStates) = 3 /\ currentIdx = 1
    /\ ItemSet(Active) = {}

\* C5: a completed item has progress 100 and its full-resolution result was
\* handed to zip.file in this run.
C5_CompletedAppended ==
    \A k \in Items :
        StatusOf(k) = "completed" =>
            /\ processStates[k + 1].progress = 100
            /\ FullRes(k) \in appended

C5_Witness ==
    /\ isProcessing /\ pc = "compose"
    /\ StatusOf(0) = "completed" /\ StatusOf(1) = "processing"
    /\ appended = { FullRes(0) }

\* C6: an item in error has handed no payload to the archive sink in this run,
\* and no exception has left startProcessing.
C6_ErrorNoPayload ==
    \A k \in Items :
        StatusOf(k) = "error" => FullRes(k) \notin appended /\ ~escaped

C6_Witness ==
    /\ Finalized
    /\ Len(processStates) = 3
    /\ StatusOf(0) = "completed" /\ StatusOf(1) = "error" /\ StatusOf(2) = "completed"
    /\ appended = { FullRes(0), FullRes(2) }

\* C7: when the read, the advisor call, the compositor or the append of item k
\* has failed, item k is in error with reason Skipped and progress 0, and the
\* loop has gone on to item k + 1 (or, after the last item, to the archive).
C7_FailedStepSkips ==
    (lastStep.result = "failed" /\ lastStep.item >= 0) =>
        /\ StatusOf(lastStep.item) = "error"
        /\ processStates[lastStep.item + 1].error = "Skipped"
        /\ processStates[lastStep.item + 1].progress = 0
        /\ pc \in {"read", "finalize"}
        /\ run.i = lastStep.item + 1

\* C8: an archive object URL that is not revoked is the one zipUrl refers to.
C8_NoArchiveUrlLeak ==
    \A url \in objectUrls : url[1] = "zip" => url = zipUrl

\* C9: an object URL of a source file that is not revoked is the URL of the
\* item the loop is working on; after the loop none is left.
C9_SourceUrlsRevoked ==
    \A url \in objectUrls :
        url[1] = "source" =>
            /\ pc \in {"read", "advisor", "compose", "hung"}
            /\ url = run.sourceUrl

\* C10: while the archive handle exists, every item is completed or error.
C10_HandleAfterAllTerminal ==
    zipUrl # None => \A k \in Items : StatusOf(k) \in Terminal

C10_Witness ==
    /\ zipUrl # None /\ runs = 2
    /\ Len(processStates) = 3
    /\ StatusOf(0) = "completed" /\ StatusOf(1) = "error"

\* C11: with yield interval K (the batchSize the run captured), the run pauses
\* after its n-th item, n = i + 1, exactly when n is a multiple of K: it is at
\* the yield only after such an item, and it has gone on without a pause from a
\* finished item only when n is not a multiple of K.
C11_YieldEveryKth ==
    /\ pc = "yield" => (run.i + 1) % run.batchSize = 0
    /\ ( /\ pc \in {"read", "finalize"}
         /\ lastStep.step \in {"append", "compose"}
         /\ lastStep.item = run.i - 1 )
       => (lastStep.item + 1) % run.batchSize # 0

\* C12: the aggregate progress is 100 only when the archive handle exists; for
\* a run at item 0 .. N - 1 of a gallery of N >= 1 items it is below 100.
C12_FullOnlyWithHandle ==
    probe.fn = "batchProgress" =>
        /\ probe.out = Some(100) => probe.hasZip
        /\ (probe.out # None /\ probe.idx >= 0) => probe.out[1] < 100

\* C13: when the finalization of the archive fails, the run returns to idle
\* (isProcessing false, currentIdx -1), no archive handle is set, no exception
\* leaves startProcessing, and the state of every item (status, progress,
\* thumbnail) is what it was before the finalization was attempted.
C13_FinalizeFailureKeepsItems ==
    [][ (pc = "finalize" /\ lastStep' = Step(-1, "finalize", "failed")) =>
            /\ ~isProcessing' /\ currentIdx' = -1 /\ pc' = "idle"
            /\ zipUrl' = None /\ ~escaped'
            /\ processStates' = processStates ]_vars

C13_Witness ==
    /\ lastStep = Step(-1, "finalize", "failed")
    /\ pc = "idle" /\ ~isProcessing /\ currentIdx = -1 /\ zipUrl = None
    /\ Len(processStates) = 2
    /\ StatusOf(0) = "completed" /\ StatusOf(1) = "error"
    /\ processStates[1].resultUrl = Some(0)

\* C14: while no run is in progress and the gallery is empty or there is no
\* brand logo, a call of startProcessing (a step that leaves the gallery and
\* the logo as they are) starts no run and changes nothing: processStates,
\* zipUrl, currentIdx and isProcessing keep their values, no object URL is
\* created, and no advisor, compositor or archive call is made.
C14_RejectedStartChangesNothing ==
    [][ ( /\ pc = "idle"
          /\ Len(images) = 0 \/ brandLogo = Null
          /\ images' = images /\ brandLogo' = brandLogo )
        => /\ UNCHANGED << processStates, zipUrl, currentIdx, isProcessing >>
           /\ UNCHANGED << pc, run, runs, objectUrls, zipBlob, lastStep, appended >>
      ]_vars

\* a gallery with the results and the archive of a run, and no logo: start is
\* rejected for the logo alone
C14_Witness ==
    /\ pc = "idle" /\ ~isProcessing
    /\ Len(images) = 2 /\ brandLogo = Null /\ hasEnvKey /\ jsZipLoaded
    /\ runs < MaxRuns
    /\ zipUrl # None /\ StatusOf(0) = "completed" /\ StatusOf(1) = "completed"

\* C19: every run that has entered running (isProcessing true) eventually
\* returns to idle (isProcessing false and currentIdx -1), whichever of its
\* steps fail.
C19_RunReturnsToIdle ==
    isProcessing ~> (~isProcessing /\ currentIdx = -1)

\* Every item is completed and carries exactly the fallback placement
\* {position: bottom-right, padding: 50} with no bounding box
AllCompletedWithFallback ==
    /\ Len(processStates) > 0
    /\ \A k \in Items :
         /\ StatusOf(k) = "completed"
         /\ PlacementOf(k) = Some([position |-> "bottom-right", padding |-> 50,
                                   boundingBox |-> None])

\* The advisor call of every item fails inside and returns its fallback, and
\* every compositing and every append succeeds
AdvisorDownComposeOk ==
    /\ [](lastStep.step = "advisor" => lastStep.result = "fallback")
    /\ [](lastStep.step \in {"compose", "append"} => lastStep.result = "ok")

C16_IncompleteGivesFallback ==
    ( /\ probe.fn = "getSmartLogoPosition" /\ probe.out # None
      /\ \/ probe.response.kind # "json"
         \/ probe.response.has # RequiredFields )
    => probe.out = Some([position |-> "bottom-right", padding |-> 50,
                         boundingBox |-> None])

\* The distance of the drawn corner logo from the left or right edge it is
\* placed at, in thousandths of a pixel
EdgeDistance(call) ==
    LET c == call.out[1].corner
    IN IF call.placement.position \in {"top-right", "bottom-right"}
       THEN 1000 * call.out[1].size.width - c.cWidth - c.cX
       ELSE c.cX

\* C17: in the corner pass the distance of the corner logo from the image
\* edges is the padding of the item's placement (placement.padding) scaled by
\* outputWidth / 1000, whatever the other padding values are.
C17_CornerOffsetFromPlacement ==
    ( /\ probe.fn = "processProductImage" /\ probe.out # None
      /\ probe.placement.position # "center" )
    => EdgeDistance(probe) = probe.placement.padding * probe.out[1].size.width

\* The count of the FORGE COMPLETE panel, rendered while zipUrl is set:
\* {images.length} SQUARE 1:1 HD FILES EXPORTED (src/App.tsx 540-557)
ExportedCount == Len(images)

\* C18: while a run's archive handle is shown, the number of exported items
\* reported with it equals the number of items of the run that are completed.
C18_ExportedCountIsCompleted ==
    zipUrl # None => ExportedCount = Cardinality(ItemSet({"completed"}))

\* The step is within one run over one gallery: no new run resets the items
\* and the gallery is not reset
SameRun == runs' = runs /\ Len(processStates') = Len(processStates)

\* C20: within one run the status of an item changes only along pending ->
\* analyzing -> processing -> completed, or to error from a status that is not
\* terminal; once an item is completed or error its status, progress and
\* thumbnail do not change again before the next run or the gallery reset.
C20_ItemLifecycle ==
    [][ SameRun =>
          \A k \in Items :
            LET old == processStates[k + 1]
                new == processStates'[k + 1]
            IN /\ new.status # old.status =>
                    \/ << old.status, new.status >> \in
                           { << "pending", "analyzing" >>,
                             << "analyzing", "processing" >>,
                             << "processing", "completed" >> }
                    \/ new.status = "error" /\ old.status \notin Terminal
               /\ old.status \in Terminal =>
                    /\ new.status = old.status
                    /\ new.progress = old.progress
                    /\ new.resultUrl = old.resultUrl ]_vars

C20_Witness ==
    /\ isProcessing /\ pc = "compose" /\ Len(processStates) = 3
    /\ StatusOf(0) = "completed" /\ StatusOf(1) = "error"
    /\ StatusOf(2) = "processing"

\* C21: while a run is in progress (isProcessing is true and no exception has
\* ended startProcessing), processStates has exactly one entry for every asset
\* of the gallery, at the same index.
C21_StatePerAsset ==
    (isProcessing /\ pc # "aborted") =>
        /\ Len(processStates) = Len(images)
        /\ \A k \in 1 .. Len(images) : processStates[k].name = images[k]

\* C22: the options of a run are fixed when it starts: the logo and the
\* padding given to the compositor and the batch size of the yield test are,
\* for every item, the ones the UI showed when the run started, whatever the
\* user has changed since.
C22_OptionsFixedAtStart ==
    run.used # None => run.used = run.atStart

\* the third item is reached after a compositor call, with the logo removed
\* and both sliders moved since the run started
C22_Witness ==
    /\ isProcessing /\ pc = "read" /\ run.i = 2
    /\ run.used = run.atStart /\ run.used # None
    /\ brandLogo = Null
    /\ logoPadding # run.atStart[1].logoPadding
    /\ batchSize # run.atStart[1].batchSize

\* The assets the last run processed: the names of its item states, in order
ProcessedAssets == [k \in 1 .. Len(processStates) |-> processStates[k].name]

\* C23: whenever no run is in progress and an archive handle is exposed, the
\* gallery is exactly the list of assets the run that produced the handle
\* processed.
C23_HandleMatchesGallery ==
    (~isProcessing /\ zipUrl # None) => images = ProcessedAssets

=============================================================================
